---- MODULE Spec2Model ----
(***************************************************************************)
(* Batch inference runners and evaluator of lib/efficientnet/utils.py.     *)
(*                                                                         *)
(* A caller runs one of create_predictions,                                *)
(* create_predictions_with_entropy, create_predictions_probability or      *)
(* evaluate_model against a shared classifier `model` and a batch loader.  *)
(* Each caller's position in the function body is its frame's pc; the      *)
(* steps are the statements of the body, so that two callers can           *)
(* interleave on the classifier's mode flag.                               *)
(*                                                                         *)
(* Floating-point values are fixed-point integers in units of 1/Scale; a   *)
(* value that can be NaN is a record [nan, v].                             *)
(***************************************************************************)
EXTENDS Integers, Sequences, FiniteSets, TLC

VARIABLES model, loader, fr, stdout, writer, modeLog, fwdLog

vars == <<model, loader, fr, stdout, writer, modeLog, fwdLog>>

(***************************************************************************)
(* Bounds of the model.                                                    *)
(***************************************************************************)
\* longest dataset drawn for a single caller
MaxSamples == 4
\* largest batch_size drawn for a single caller
MaxBatchSize == 4
\* largest step index (epoch) passed to evaluate_model
MaxEpoch == 1
\* longest dataset drawn when two callers interleave (one sample per batch)
MaxSamplesConc == 2

(***************************************************************************)
(* Numbers.                                                                *)
(***************************************************************************)
Scale == 10 * 100

F(v) == [nan |-> FALSE, v |-> v]
NaN == [nan |-> TRUE, v |-> 0]

RECURSIVE SumSeq(_)
SumSeq(s) == IF Len(s) = 0 THEN 0 ELSE s[1] + SumSeq(Tail(s))

Range(s) == {s[i] : i \in 1..Len(s)}

(***************************************************************************)
(* The classifier, the samples and the loader.                             *)
(***************************************************************************)
Classes == 0..3

\* raw class scores the network gives each image (image k is row k)
NetTable ==
    << <<2, 0, 0, 0>>,
       <<0, 2, 0, 0>>,
       <<0, 1, 3, 0>>,
       <<1, 0, 0, 2>>,
       <<0, 7, 7, 7>>,
       <<6, 8, 0, 7>> >>

Net(image) == [k \in Classes |-> NetTable[image][k + 1]]

\* the rows of the data frame behind the dataset: identifier, label, image
Pool ==
    << [name |-> "a.jpeg", label |-> 0, image |-> 1],
       [name |-> "b.jpeg", label |-> 1, image |-> 2],
       [name |-> "c.jpeg", label |-> 2, image |-> 3],
       [name |-> "d.jpeg", label |-> 3, image |-> 4],
       [name |-> "e.jpeg", label |-> 0, image |-> 5],
       [name |-> "f.jpeg", label |-> 2, image |-> 6] >>

RECURSIVE Pick(_, _)
\* the rows of Pool whose index is in S, in Pool order
Pick(S, from) ==
    IF from > Len(Pool) THEN <<>>
    ELSE (IF from \in S THEN <<Pool[from]>> ELSE <<>>) \o Pick(S, from + 1)

Reverse(s) == [i \in 1..Len(s) |-> s[Len(s) + 1 - i]]

\* datasets of at most n distinct rows, in Pool order or (shuffled) reversed
Datasets(n) ==
    LET subs == {S \in SUBSET (1..Len(Pool)) : Cardinality(S) <= n}
    IN {Pick(S, 1) : S \in subs} \cup {Reverse(Pick(S, 1)) : S \in subs}

RECURSIVE Chunks(_, _)
\* DataLoader(ds, batch_size): consecutive batches, the last one shorter
Chunks(ds, bs) ==
    IF Len(ds) = 0 THEN <<>>
    ELSE IF Len(ds) <= bs THEN <<ds>>
    ELSE <<SubSeq(ds, 1, bs)>> \o Chunks(SubSeq(ds, bs + 1, Len(ds)), bs)

RECURSIVE Flatten(_)
Flatten(bs) == IF Len(bs) = 0 THEN <<>> ELSE bs[1] \o Flatten(Tail(bs))

\* the three fields of a collated batch
Images(b) == [j \in 1..Len(b) |-> b[j].image]
Labels(b) == [j \in 1..Len(b) |-> b[j].label]
Names(b) == [j \in 1..Len(b) |-> b[j].name]

(***************************************************************************)
(* Tensor operations.                                                      *)
(***************************************************************************)
\* value.view(-1): the labels as a one-dimensional tensor
View1(value) == [j \in 1..Len(value) |-> value[j]]

\* T_star of create_predictions_with_entropy, in units of 1/Scale
T_star_entropy == 1373
\* T_star of create_predictions_probability, in units of 1/Scale
T_star_probability == 1150

\* exp(x / T) in units of 1/Scale, for the raw scores 0..8
ExpTable(T) ==
    IF T = T_star_entropy
    THEN <<1000, 2072, 4292, 8891, 18418, 38155, 79043, 163747, 339223>>
    ELSE <<1000, 2386, 5692, 13581, 32403, 77310, 184452, 440080, 1049975>>

Exp(x, T) == ExpTable(T)[x + 1]

\* softmax(scores / T, dim = 1) of one row
Softmax(scores, T) ==
    LET total == SumSeq([k \in 1..Cardinality(Classes) |-> Exp(scores[k - 1], T)])
    IN [k \in Classes |-> (Exp(scores[k], T) * Scale) \div total]

RECURSIVE FirstMaxFrom(_, _, _)
\* index of the first maximal entry of vec among k..last class, best so far b
FirstMaxFrom(vec, k, b) ==
    IF k \notin Classes THEN b
    ELSE FirstMaxFrom(vec, k + 1, IF vec[k] > vec[b] THEN k ELSE b)

RECURSIVE FirstMinFrom(_, _, _)
FirstMinFrom(vec, k, b) ==
    IF k \notin Classes THEN b
    ELSE FirstMinFrom(vec, k + 1, IF vec[k] < vec[b] THEN k ELSE b)

TorchArgmin(vec) == FirstMinFrom(vec, 0, 0)

\* torch.argmax(row): the first index of the maximal value
TorchArgmax(vec) == FirstMaxFrom(vec, 0, 0)

\* torch.max(row): (maximal value, first index of it)
TorchMax(vec) == <<vec[FirstMaxFrom(vec, 0, 0)], FirstMaxFrom(vec, 0, 0)>>

\* model(batch): one row of raw scores per image
Classifier(batch) == [j \in 1..Len(batch) |-> Net(batch[j])]

\* the loss function handed in: multi-class margin loss (margin 1), averaged
\* over the classes within a sample and over the samples of the batch
SampleLoss(scores, y) ==
    LET hinge(k) == IF k = y \/ 1 - scores[y] + scores[k] < 0
                    THEN 0 ELSE 1 - scores[y] + scores[k]
    IN (Scale * SumSeq([k \in 1..Cardinality(Classes) |-> hinge(k - 1)]))
           \div Cardinality(Classes)

loss_fn(predictions, value) ==
    SumSeq([j \in 1..Len(value) |-> SampleLoss(predictions[j], value[j])])
        \div Len(value)

\* np.mean(xs): NaN (with a warning) for no elements
NpMean(xs) == IF Len(xs) = 0 THEN NaN ELSE F(SumSeq(xs) \div Len(xs))

NpConcatenateReversed(arrays) == Flatten(Reverse(arrays))

\* np.concatenate(arrays, axis = 0) for at least one array
NpConcatenate(arrays) == Flatten(arrays)

AlwaysConcatenates(arrays) == TRUE

\* np.concatenate raises ValueError when given no array
CanConcatenate(arrays) == Len(arrays) > 0

(***************************************************************************)
(* Metrics of evaluate_model.                                              *)
(***************************************************************************)
RECURSIVE SortedSeq(_)
SortedSeq(S) ==
    IF S = {} THEN <<>>
    ELSE LET m == CHOOSE x \in S : \A y \in S : x <= y
         IN <<m>> \o SortedSeq(S \ {m})

\* cohen_kappa_score(y1, y2, weights = 'quadratic'): 1 - sum(w * confusion) /
\* sum(w * expected) over the labels that occur; 0 / 0 is NaN
CohenKappa(y1, y2) ==
    LET L == SortedSeq(Range(y1) \cup Range(y2))
        n == Len(L)
        N == Len(y1)
        confusion(i, j) ==
            Cardinality({t \in 1..N : y1[t] = L[i] /\ y2[t] = L[j]})
        sum0(j) == SumSeq([i \in 1..n |-> confusion(i, j)])
        sum1(i) == SumSeq([j \in 1..n |-> confusion(i, j)])
        w(i, j) == (i - j) * (i - j)
        num == SumSeq([i \in 1..n |->
                   SumSeq([j \in 1..n |-> w(i, j) * confusion(i, j)])])
        den == SumSeq([i \in 1..n |->
                   SumSeq([j \in 1..n |-> w(i, j) * sum0(i) * sum1(j)])])
    IN IF den = 0 THEN NaN ELSE F(Scale - (Scale * N * num) \div den)

\* np.mean(predictions == labels)
Accuracy(predictions, labels) ==
    NpMean([t \in 1..Len(predictions) |->
               IF predictions[t] = labels[t] THEN Scale ELSE 0])

\* f1_score(labels, predictions, average = "macro")
F1Macro(labels, predictions) ==
    LET L == SortedSeq(Range(labels) \cup Range(predictions))
        N == Len(labels)
        tp(l) == Cardinality({t \in 1..N : labels[t] = l /\ predictions[t] = l})
        fp(l) == Cardinality({t \in 1..N : labels[t] # l /\ predictions[t] = l})
        fn(l) == Cardinality({t \in 1..N : labels[t] = l /\ predictions[t] # l})
        f(l) == (Scale * 2 * tp(l)) \div (2 * tp(l) + fp(l) + fn(l))
    IN IF Len(L) = 0 THEN NaN
       ELSE F(SumSeq([i \in 1..Len(L) |-> f(L[i])]) \div Len(L))

(***************************************************************************)
(* Frames.                                                                 *)
(***************************************************************************)
Runners == {"create_predictions", "create_predictions_with_entropy",
            "create_predictions_probability"}

Entries == Runners \cup {"evaluate_model"}

\* the runner a frame executes: evaluate_model calls create_predictions
Variant(f) == IF f.entry = "evaluate_model" THEN "create_predictions" ELSE f.entry

NoExc == [type |-> "", at |-> "", batch |-> 0]

\* the frame of a call that has not executed its first statement
Frame(entry, epoch, w) ==
    [entry |-> entry, pc |-> "eval", epoch |-> epoch, config_writer |-> w,
     it |-> 0, batch |-> <<>>, value |-> <<>>, image_name |-> <<>>,
     result |-> <<>>, predictions |-> <<>>, loss |-> 0, probability |-> <<>>,
     all_predictions |-> <<>>, all_values |-> <<>>, all_names |-> <<>>,
     all_losses |-> <<>>, all_probabilities |-> <<>>,
     ret |-> <<>>, exc |-> NoExc]

RunnerFrames == {Frame(e, 0, FALSE) : e \in Runners}

EvaluateFrames ==
    {Frame("evaluate_model", ep, w) : ep \in 0..MaxEpoch, w \in BOOLEAN}

ModelEvalNoop(m) == m

ModelEvalSetsTraining(m) == [m EXCEPT !.training = TRUE]

\* model.eval()
ModelEval(m) == [m EXCEPT !.training = FALSE]

ModelTrainNoop(m) == m

\* model.train()
ModelTrain(m) == [m EXCEPT !.training = TRUE]

ModeWrite(c, m, m2) ==
    [by |-> c, from |-> m.training, to |-> m2.training, consumed |-> fr[c].it]

(***************************************************************************)
(* Initial states.                                                         *)
(***************************************************************************)
Models == [training : BOOLEAN, params : {"theta"}]

\* one caller, any entry point, any loader over at most MaxSamples rows
Init ==
    /\ model \in Models
    /\ loader \in {Chunks(ds, bs) : ds \in Datasets(MaxSamples),
                                    bs \in 1..MaxBatchSize}
    /\ fr \in [{1} -> RunnerFrames \cup EvaluateFrames]
    /\ stdout = <<>>
    /\ writer = <<>>
    /\ modeLog = <<>>
    /\ fwdLog = <<>>

\* one caller, or two callers sharing the classifier and the loader
InitConc ==
    /\ model \in Models
    /\ loader \in {Chunks(SubSeq(Pool, 1, n), 1) :
                      n \in {k \in 0..MaxSamplesConc : k <= Len(Pool)}}
    /\ \/ fr \in [{1} -> RunnerFrames \cup EvaluateFrames]
       \/ fr \in {f \in [{1, 2} -> RunnerFrames \cup EvaluateFrames] :
                     f[2].entry \in Runners}
    /\ stdout = <<>>
    /\ writer = <<>>
    /\ modeLog = <<>>
    /\ fwdLog = <<>>

(***************************************************************************)
(* Steps of the runners.                                                   *)
(***************************************************************************)
\* model.eval() and the empty accumulators
Eval(c) ==
    /\ fr[c].pc = "eval"
    /\ model' = ModelEval(model)
    /\ modeLog' = Append(modeLog, ModeWrite(c, model, model'))
    /\ fr' = [fr EXCEPT ![c].pc = "iter",
                        ![c].all_predictions = <<>>, ![c].all_values = <<>>,
                        ![c].all_names = <<>>, ![c].all_losses = <<>>,
                        ![c].all_probabilities = <<>>]
    /\ UNCHANGED <<loader, stdout, writer, fwdLog>>

\* for batch, value, image_name in tqdm(loader): the next batch, or the end
Iter(c) ==
    /\ fr[c].pc = "iter"
    /\ IF fr[c].it < Len(loader)
       THEN fr' = [fr EXCEPT ![c].pc = "to_device",
                             ![c].it = @ + 1,
                             ![c].batch = Images(loader[fr[c].it + 1]),
                             ![c].value = Labels(loader[fr[c].it + 1]),
                             ![c].image_name = Names(loader[fr[c].it + 1])]
       ELSE fr' = [fr EXCEPT ![c].pc = "train"]
    /\ UNCHANGED <<model, loader, stdout, writer, modeLog, fwdLog>>

\* batch.to(device), value.to(device).view(-1)
ToDevice(c) ==
    /\ fr[c].pc = "to_device"
    /\ fr' = [fr EXCEPT ![c].pc = "forward", ![c].value = View1(@)]
    /\ UNCHANGED <<model, loader, stdout, writer, modeLog, fwdLog>>

\* with torch.no_grad(): model(batch), under the mode flag as it is now
Forward(c) ==
    /\ fr[c].pc = "forward"
    /\ fr' = [fr EXCEPT ![c].pc = "extract", ![c].result = Classifier(fr[c].batch)]
    /\ fwdLog' = Append(fwdLog, [by |-> c, training |-> model.training,
                                 batch |-> fr[c].it])
    /\ UNCHANGED <<model, loader, stdout, writer, modeLog>>

ExtractLossLabelArgmin(f) ==
    [f EXCEPT !.loss = loss_fn(f.result, f.value),
              !.predictions = [j \in 1..Len(f.result) |-> TorchArgmin(f.result[j])]]

\* create_predictions: loss_fn, argmax, long().view(-1)
ExtractLossLabel(f) ==
    [f EXCEPT !.loss = loss_fn(f.result, f.value),
              !.predictions = [j \in 1..Len(f.result) |-> TorchArgmax(f.result[j])]]

ExtractConfidenceOtherTemperature(f) ==
    LET m(j) == TorchMax(Softmax(f.result[j], T_star_probability))
    IN [f EXCEPT !.probability = [j \in 1..Len(f.result) |-> m(j)[1]],
                 !.predictions = [j \in 1..Len(f.result) |-> m(j)[2]]]

\* create_predictions_with_entropy: torch.max(softmax(result / T_star))
ExtractConfidence(f) ==
    LET m(j) == TorchMax(Softmax(f.result[j], T_star_entropy))
    IN [f EXCEPT !.probability = [j \in 1..Len(f.result) |-> m(j)[1]],
                 !.predictions = [j \in 1..Len(f.result) |-> m(j)[2]]]

\* create_predictions_probability: softmax(result / T_star)
ExtractProbability(f) ==
    [f EXCEPT !.probability =
                  [j \in 1..Len(f.result) |-> Softmax(f.result[j], T_star_probability)]]

Extract(c) ==
    /\ fr[c].pc = "extract"
    /\ fr' = [fr EXCEPT ![c] =
                [(CASE Variant(fr[c]) = "create_predictions" -> ExtractLossLabel(fr[c])
                    [] Variant(fr[c]) = "create_predictions_with_entropy" ->
                           ExtractConfidence(fr[c])
                    [] OTHER -> ExtractProbability(fr[c]))
                 EXCEPT !.pc = "accumulate"]]
    /\ UNCHANGED <<model, loader, stdout, writer, modeLog, fwdLog>>

\* the all_*.append(...) lines of the three loop bodies
Accumulate(c) ==
    /\ fr[c].pc = "accumulate"
    /\ LET f == fr[c]
           v == Variant(f)
           g == [f EXCEPT !.pc = "iter",
                          !.all_values = Append(@, f.value),
                          !.all_names = Append(@, f.image_name),
                          !.batch = <<>>, !.value = <<>>, !.image_name = <<>>,
                          !.result = <<>>, !.predictions = <<>>, !.loss = 0,
                          !.probability = <<>>]
       IN fr' = [fr EXCEPT ![c] =
                    CASE v = "create_predictions" ->
                           [g EXCEPT !.all_predictions = Append(@, f.predictions),
                                     !.all_losses = Append(@, f.loss)]
                      [] v = "create_predictions_with_entropy" ->
                           [g EXCEPT !.all_predictions = Append(@, f.predictions),
                                     !.all_probabilities = Append(@, f.probability)]
                      [] OTHER ->
                           [g EXCEPT !.all_probabilities = Append(@, f.probability)]]
    /\ UNCHANGED <<model, loader, stdout, writer, modeLog, fwdLog>>

RaiseRestoresMode(c) ==
    /\ fr[c].pc \in {"to_device", "forward", "extract", "accumulate"}
    /\ fr' = [fr EXCEPT ![c].pc = "raised",
                        ![c].exc = [type |-> "RuntimeError", at |-> fr[c].pc,
                                    batch |-> fr[c].it]]
    /\ model' = ModelTrain(model)
    /\ UNCHANGED <<loader, stdout, writer, modeLog, fwdLog>>

\* an error raised by a statement of the loop body: nothing catches it
Raise(c) ==
    /\ fr[c].pc \in {"to_device", "forward", "extract", "accumulate"}
    /\ fr' = [fr EXCEPT ![c].pc = "raised",
                        ![c].exc = [type |-> "RuntimeError", at |-> fr[c].pc,
                                    batch |-> fr[c].it]]
    /\ UNCHANGED <<model, loader, stdout, writer, modeLog, fwdLog>>

\* model.train()
Train(c) ==
    /\ fr[c].pc = "train"
    /\ model' = ModelTrain(model)
    /\ modeLog' = Append(modeLog, ModeWrite(c, model, model'))
    /\ fr' = [fr EXCEPT ![c].pc = "return"]
    /\ UNCHANGED <<loader, stdout, writer, fwdLog>>

SizeWeightedMean(losses, values) ==
    IF Len(losses) = 0 THEN NaN
    ELSE F(SumSeq([b \in 1..Len(losses) |-> losses[b] * Len(values[b])])
               \div Len(Flatten(values)))

ResultSizeWeighted(f) ==
    CASE Variant(f) = "create_predictions" ->
           <<NpConcatenate(f.all_predictions), NpConcatenate(f.all_values),
             NpConcatenate(f.all_names), SizeWeightedMean(f.all_losses, f.all_values)>>
      [] Variant(f) = "create_predictions_with_entropy" ->
           <<NpConcatenate(f.all_predictions), NpConcatenate(f.all_values),
             NpConcatenate(f.all_probabilities), NpConcatenate(f.all_names)>>
      [] OTHER ->
           <<NpConcatenate(f.all_probabilities), NpConcatenate(f.all_values),
             NpConcatenate(f.all_names)>>

\* the tuple the return statement builds
Result(f) ==
    CASE Variant(f) = "create_predictions" ->
           <<NpConcatenate(f.all_predictions), NpConcatenate(f.all_values),
             NpConcatenate(f.all_names), NpMean(f.all_losses)>>
      [] Variant(f) = "create_predictions_with_entropy" ->
           <<NpConcatenate(f.all_predictions), NpConcatenate(f.all_values),
             NpConcatenate(f.all_probabilities), NpConcatenate(f.all_names)>>
      [] OTHER ->
           <<NpConcatenate(f.all_probabilities), NpConcatenate(f.all_values),
             NpConcatenate(f.all_names)>>

\* return np.concatenate(...), ...: the result, or ValueError for no batch
Return(c) ==
    /\ fr[c].pc = "return"
    /\ IF CanConcatenate(fr[c].all_values)
       THEN fr' = [fr EXCEPT ![c].ret = Result(fr[c]),
                             ![c].pc = IF fr[c].entry = "evaluate_model"
                                       THEN "metrics" ELSE "done"]
       ELSE fr' = [fr EXCEPT ![c].pc = "raised",
                             ![c].exc = [type |-> "ValueError", at |-> "concatenate",
                                         batch |-> fr[c].it]]
    /\ UNCHANGED <<model, loader, stdout, writer, modeLog, fwdLog>>

(***************************************************************************)
(* evaluate_model after its call of create_predictions.                    *)
(***************************************************************************)
ScalarsWithoutLoss(kappa, accuracy, f1, loss, epoch) ==
    << [tag |-> "Kappa", value |-> kappa, step |-> epoch],
       [tag |-> "Accuracy", value |-> accuracy, step |-> epoch],
       [tag |-> "F1", value |-> f1, step |-> epoch] >>

\* the four config.writer.add_scalar calls
Scalars(kappa, accuracy, f1, loss, epoch) ==
    << [tag |-> "Kappa", value |-> kappa, step |-> epoch],
       [tag |-> "Accuracy", value |-> accuracy, step |-> epoch],
       [tag |-> "F1", value |-> f1, step |-> epoch],
       [tag |-> "val_loss", value |-> loss, step |-> epoch] >>

\* the metrics, the print and the writer calls; the function returns None
Report(c) ==
    /\ fr[c].pc = "metrics"
    /\ LET predictions == fr[c].ret[1]
           labels == fr[c].ret[2]
           loss == fr[c].ret[4]
           kappa == CohenKappa(labels, predictions)
           accuracy == Accuracy(predictions, labels)
           f1 == F1Macro(labels, predictions)
       IN /\ stdout' = Append(stdout, [text |-> "Cohen Kappa Score", value |-> kappa])
          /\ writer' = IF fr[c].config_writer
                       THEN writer \o Scalars(kappa, accuracy, f1, loss, fr[c].epoch)
                       ELSE writer
    /\ fr' = [fr EXCEPT ![c].pc = "done", ![c].ret = <<>>]
    /\ UNCHANGED <<model, loader, modeLog, fwdLog>>

Callers == DOMAIN fr

Next ==
    \/ \E c \in Callers : Eval(c)
    \/ \E c \in Callers : Iter(c)
    \/ \E c \in Callers : ToDevice(c)
    \/ \E c \in Callers : Forward(c)
    \/ \E c \in Callers : Extract(c)
    \/ \E c \in Callers : Accumulate(c)
    \/ \E c \in Callers : Raise(c)
    \/ \E c \in Callers : Train(c)
    \/ \E c \in Callers : Return(c)
    \/ \E c \in Callers : Report(c)

Spec == Init /\ [][Next]_vars

SpecConc == InitConc /\ [][Next]_vars

(***************************************************************************)
(* What the claims speak of.                                               *)
(***************************************************************************)
\* the samples in the order the loader yields them
Samples == Flatten(loader)
Total == Len(Samples)

Scores(i) == Net(Samples[i].image)

\* the per-batch losses of a pass over the loader
BatchLosses ==
    [b \in 1..Len(loader) |->
        loss_fn(Classifier(Images(loader[b])), Labels(loader[b]))]

\* the runner of caller c has returned its tuple, which the frame still holds
Returned(c) ==
    \/ fr[c].pc = "metrics"
    \/ fr[c].pc = "done" /\ fr[c].entry \in Runners

RaisedInLoop(c) == fr[c].pc = "raised" /\ fr[c].exc.at # "concatenate"

ForwardsBy(c) == {i \in 1..Len(fwdLog) : fwdLog[i].by = c}

(***************************************************************************)
(* C1: every sequence a runner returns has one element per sample of the   *)
(* loader, and index i of each of them (predicted class, true class,       *)
(* identifier, confidence or probability vector) belongs to the i-th       *)
(* sample the loader yields.                                               *)
(***************************************************************************)
C1_LengthAndOrder ==
    \A c \in Callers :
        Returned(c) =>
            LET r == fr[c].ret
                v == Variant(fr[c])
                I == 1..Total
            IN /\ Total > 0
               /\ v = "create_predictions" =>
                    /\ Len(r[1]) = Total /\ Len(r[2]) = Total /\ Len(r[3]) = Total
                    /\ \A i \in I : /\ r[1][i] = TorchArgmax(Scores(i))
                                    /\ r[2][i] = Samples[i].label
                                    /\ r[3][i] = Samples[i].name
               /\ v = "create_predictions_with_entropy" =>
                    /\ Len(r[1]) = Total /\ Len(r[2]) = Total
                    /\ Len(r[3]) = Total /\ Len(r[4]) = Total
                    /\ \A i \in I :
                         /\ r[1][i] = TorchArgmax(Scores(i))
                         /\ r[2][i] = Samples[i].label
                         /\ r[3][i] = TorchMax(Softmax(Scores(i), T_star_entropy))[1]
                         /\ r[4][i] = Samples[i].name
               /\ v = "create_predictions_probability" =>
                    /\ Len(r[1]) = Total /\ Len(r[2]) = Total /\ Len(r[3]) = Total
                    /\ \A i \in I :
                         /\ r[1][i] = Softmax(Scores(i), T_star_probability)
                         /\ r[2][i] = Samples[i].label
                         /\ r[3][i] = Samples[i].name

\* a confidence pass over batches of 3 and 1 samples has returned 4 of each
C1_Witness ==
    /\ fr[1].entry = "create_predictions_with_entropy"
    /\ fr[1].pc = "done"
    /\ Len(loader) = 2 /\ Len(loader[1]) = 3 /\ Len(loader[2]) = 1
    /\ Len(fr[1].ret[4]) = 4
    /\ fr[1].ret[4][4] = loader[2][1].name

(***************************************************************************)
(* C2: when a runner has returned (and so when evaluate_model has), the    *)
(* classifier is in training mode, whatever the mode was before the call.  *)
(***************************************************************************)
C2_TrainingAfterSuccess ==
    \A c \in Callers :
        (fr[c].pc \in {"metrics", "done"}) => model.training = TRUE

\* a pass over several batches that began in inference mode has returned
C2_Witness ==
    /\ fr[1].pc = "done"
    /\ Len(loader) >= 2
    /\ modeLog[1].from = FALSE
    /\ model.training = TRUE

(***************************************************************************)
(* C3: an error raised inside the batch loop ends the call at that batch:  *)
(* the caller gets the error and no result, no later batch is consumed or  *)
(* forwarded, nothing is retried, printed or recorded, and the classifier  *)
(* stays in inference mode.                                                *)
(***************************************************************************)
C3_ErrorAborts ==
    \A c \in Callers :
        RaisedInLoop(c) =>
            /\ model.training = FALSE
            /\ Len(modeLog) = 1 /\ modeLog[1].to = FALSE
            /\ Len(fr[c].ret) = 0
            /\ fr[c].it = fr[c].exc.batch
            /\ \A i \in ForwardsBy(c) : fwdLog[i].batch <= fr[c].exc.batch
            /\ Cardinality(ForwardsBy(c)) =
                 IF fr[c].exc.at \in {"to_device", "forward"}
                 THEN fr[c].exc.batch - 1 ELSE fr[c].exc.batch
            /\ stdout = <<>> /\ writer = <<>>
            /\ ~ ENABLED Next

\* the loss or softmax step of the second of three batches has raised, in a
\* call that began in training mode
C3_Witness ==
    /\ fr[1].pc = "raised"
    /\ fr[1].exc.at = "extract" /\ fr[1].exc.batch = 2
    /\ Len(loader) >= 3
    /\ modeLog[1].from = TRUE
    /\ model.training = FALSE

(***************************************************************************)
(* C4: the loss create_predictions returns is the sum of the per-batch     *)
(* losses divided by the number of batches, whatever the batch sizes: 4.0  *)
(* for batches of 3 and 1 samples with losses 2.0 and 6.0.                 *)
(***************************************************************************)
C4_UnweightedMeanLoss ==
    \A c \in Callers :
        (Returned(c) /\ Variant(fr[c]) = "create_predictions") =>
            /\ fr[c].ret[4] = F(SumSeq(BatchLosses) \div Len(loader))
            /\ (/\ Len(loader) = 2
                /\ Len(loader[1]) = 3 /\ Len(loader[2]) = 1
                /\ BatchLosses = <<2 * Scale, 6 * Scale>>)
                   => fr[c].ret[4] = F(4 * Scale)

\* batches of 3 and 1 samples with losses 2.0 and 6.0 gave 4.0, where the
\* mean over the four samples is 3.0
C4_Witness ==
    /\ fr[1].entry = "create_predictions" /\ fr[1].pc = "done"
    /\ Len(loader) = 2 /\ Len(loader[1]) = 3 /\ Len(loader[2]) = 1
    /\ BatchLosses = <<2 * Scale, 6 * Scale>>
    /\ fr[1].ret[4] = F(4 * Scale)
    /\ SumSeq([i \in 1..Total |-> SampleLoss(Scores(i), Samples[i].label)])
           \div Total = 3 * Scale

(***************************************************************************)
(* C5: in the confidence variant the confidence of a sample is the largest *)
(* entry of its softmax vector at temperature 1.373 and the predicted      *)
(* class is an index of that entry, hence of a largest raw score.          *)
(***************************************************************************)
C5_ConfidenceIsMax ==
    \A c \in Callers :
        (fr[c].entry = "create_predictions_with_entropy" /\ fr[c].pc = "done") =>
            \A i \in 1..Total :
                LET vec == Softmax(Scores(i), T_star_entropy)
                    p == fr[c].ret[1][i]
                    conf == fr[c].ret[3][i]
                IN /\ p \in Classes
                   /\ vec[p] = conf
                   /\ \A k \in Classes : vec[k] <= conf
                   /\ \A k \in Classes : Scores(i)[k] <= Scores(i)[p]

\* a pass holding the sample whose three largest scores are equal
C5_Witness ==
    /\ fr[1].entry = "create_predictions_with_entropy" /\ fr[1].pc = "done"
    /\ Len(loader) >= 2
    /\ \E i \in 1..Total :
          /\ Samples[i].image = 5
          /\ fr[1].ret[1][i] = 1
          /\ fr[1].ret[3][i] = Softmax(Scores(i), T_star_entropy)[1]
          /\ fr[1].ret[3][i] > Softmax(Scores(i), T_star_entropy)[0]

(***************************************************************************)
(* C6: evaluate_model over samples whose first largest raw score is at the *)
(* true label.                                                             *)
(***************************************************************************)
AllCorrect == \A i \in 1..Total : TorchArgmax(Scores(i)) = Samples[i].label

TrueLabels == {Samples[i].label : i \in 1..Total}

\* the metrics evaluate_model has reported, kappa being Kappa
PerfectReport(c, Kappa) ==
    /\ fr[c].pc = "metrics" =>
          /\ fr[c].ret[1] = fr[c].ret[2]
          /\ fr[c].ret[2] = [i \in 1..Total |-> Samples[i].label]
    /\ fr[c].pc = "done" =>
          /\ stdout[1].value = Kappa
          /\ fr[c].config_writer =>
                /\ writer[1].tag = "Kappa" /\ writer[1].value = Kappa
                /\ writer[2].tag = "Accuracy" /\ writer[2].value = F(Scale)

\* C6 as claimed: predicted equals true, accuracy is 1.0 and Kappa is 1.0
C6_Original ==
    \A c \in Callers :
        (fr[c].entry = "evaluate_model" /\ AllCorrect /\ Total > 0) =>
            PerfectReport(c, F(Scale))

\* C6 as amended: predicted equals true and accuracy is 1.0; Kappa is 1.0
\* when at least two classes occur among the true labels, and NaN (0 / 0)
\* when every sample has the same class. One batch with true labels
\* 0, 1, 2, 3 gives predicted 0, 1, 2, 3.
C6_PerfectPrediction ==
    \A c \in Callers :
        (fr[c].entry = "evaluate_model" /\ AllCorrect /\ Total > 0) =>
            /\ PerfectReport(c, IF Cardinality(TrueLabels) >= 2
                                THEN F(Scale) ELSE NaN)
            /\ (fr[c].pc = "metrics" /\ Len(loader) = 1
                   /\ Labels(loader[1]) = <<0, 1, 2, 3>>)
                  => fr[c].ret[1] = <<0, 1, 2, 3>>

\* one batch of four samples with true labels 0, 1, 2, 3 has been reported
C6_Witness ==
    /\ fr[1].entry = "evaluate_model" /\ fr[1].pc = "done"
    /\ fr[1].config_writer
    /\ AllCorrect
    /\ Len(loader) = 1 /\ Labels(loader[1]) = <<0, 1, 2, 3>>
    /\ stdout[1].value = F(Scale)
    /\ writer[2].value = F(Scale)

(***************************************************************************)
(* C7: evaluate_model makes one pass of create_predictions, then prints    *)
(* the Kappa score once; with a writer configured it records Kappa,        *)
(* Accuracy, F1 and val_loss, each at the caller's step, and without one   *)
(* it records nothing; nothing is printed or recorded before the pass has  *)
(* returned; the function returns None.                                    *)
(***************************************************************************)
C7_EvaluateReports ==
    \A c \in Callers :
        LET predictions == [i \in 1..Total |-> TorchArgmax(Scores(i))]
            labels == [i \in 1..Total |-> Samples[i].label]
            kappa == CohenKappa(labels, predictions)
        IN /\ (fr[c].entry # "evaluate_model" \/ fr[c].pc # "done") =>
                 stdout = <<>> /\ writer = <<>>
           /\ (fr[c].entry = "evaluate_model" /\ fr[c].pc = "done") =>
                 /\ stdout = <<[text |-> "Cohen Kappa Score", value |-> kappa]>>
                 /\ fr[c].config_writer =>
                       /\ Len(writer) = 4
                       /\ \A k \in 1..4 : writer[k].step = fr[c].epoch
                       /\ writer[1].tag = "Kappa" /\ writer[1].value = kappa
                       /\ writer[2].tag = "Accuracy"
                       /\ writer[2].value = Accuracy(predictions, labels)
                       /\ writer[3].tag = "F1"
                       /\ writer[3].value = F1Macro(labels, predictions)
                       /\ writer[4].tag = "val_loss"
                       /\ writer[4].value = NpMean(BatchLosses)
                 /\ ~ fr[c].config_writer => writer = <<>>
                 /\ Len(fr[c].ret) = 0
                 /\ Len(modeLog) = 2
                 /\ Len(fwdLog) = Len(loader)
                 /\ \A b \in 1..Len(loader) : fwdLog[b].batch = b

\* a pass over several batches has been reported to the writer at step 1
C7_Witness ==
    /\ fr[1].entry = "evaluate_model" /\ fr[1].pc = "done"
    /\ fr[1].config_writer /\ fr[1].epoch = 1
    /\ Len(loader) >= 2
    /\ Len(writer) = 4 /\ writer[4].step = 1 /\ writer[4].tag = "val_loss"
    /\ Len(stdout) = 1

(***************************************************************************)
(* C8: with one caller every forward pass runs in inference mode; with two *)
(* callers on the same classifier a forward pass can run in training mode, *)
(* the other call having finished and set the flag.                        *)
(***************************************************************************)
C8_SingleCallerInference ==
    Cardinality(Callers) = 1 =>
        \A i \in 1..Len(fwdLog) : fwdLog[i].training = FALSE

\* caller 1 has just run a forward pass in training mode, caller 2 being done
C8_Witness ==
    /\ Callers = {1, 2}
    /\ fr[2].pc = "done"
    /\ fr[1].pc = "extract"
    /\ fwdLog[Len(fwdLog)].by = 1
    /\ fwdLog[Len(fwdLog)].training = TRUE
    /\ modeLog[Len(modeLog)] = [by |-> 2, from |-> FALSE, to |-> TRUE,
                                consumed |-> Len(loader)]

(***************************************************************************)
(* C9: the writes of the mode flag within one call, and the call's frame.   *)
(***************************************************************************)
LoopCompleted(c) ==
    \/ fr[c].pc \in {"return", "metrics", "done"}
    \/ fr[c].pc = "raised" /\ fr[c].exc.at = "concatenate"

C9_State ==
    \A c \in Callers :
        /\ fr[c].pc = "eval" => modeLog = <<>>
        /\ (~ LoopCompleted(c) /\ fr[c].pc # "eval") =>
              /\ Len(modeLog) = 1
              /\ model.training = FALSE
        /\ fr[c].pc # "eval" =>
              modeLog[1] = [by |-> c, from |-> modeLog[1].from, to |-> FALSE,
                            consumed |-> 0]
        /\ LoopCompleted(c) =>
              /\ Len(modeLog) = 2
              /\ modeLog[2] = [by |-> c, from |-> FALSE, to |-> TRUE,
                               consumed |-> Len(loader)]
              /\ model.training = TRUE
              /\ Len(fwdLog) = Len(loader)
        /\ fr[c].pc = "return" => Len(fr[c].ret) = 0
        /\ \A i \in 1..Len(fwdLog) : fwdLog[i].training = FALSE

\* C9 as claimed: every call that has ended has written the flag exactly
\* twice, to inference and then to training
C9_Original ==
    \A c \in Callers :
        (fr[c].pc \in {"done", "raised"}) =>
            /\ Len(modeLog) = 2
            /\ modeLog[1].to = FALSE
            /\ modeLog[2].to = TRUE

\* C9 as amended: a call writes the mode flag to inference at entry, before
\* it takes a batch, and to training once the loader is exhausted, before it
\* builds its result, and at no other point: two writes in a call whose loop
\* completes, one in a call that an error in the loop has ended. In between
\* the flag is unchanged, so every forward pass runs in inference mode. The
\* loader and the classifier's parameters are never changed.
C9_TwoWritesAndFrame ==
    /\ [] C9_State
    /\ [][loader' = loader /\ model'.params = model.params]_vars

\* a pass over several batches has returned after exactly two writes
C9_Witness ==
    /\ fr[1].pc = "done"
    /\ Len(loader) >= 2
    /\ Len(modeLog) = 2
    /\ modeLog[1].to = FALSE /\ modeLog[2].to = TRUE
    /\ Len(fwdLog) = Len(loader)

(***************************************************************************)
(* C10: over an empty loader every entry point ends with the ValueError of *)
(* concatenating no arrays, raised after model.train(): the classifier is  *)
(* in training mode and no forward pass has run.                           *)
(***************************************************************************)
C10_EmptyLoader ==
    \A c \in Callers :
        /\ Len(loader) = 0 =>
              /\ fr[c].pc \notin {"metrics", "done"}
              /\ fwdLog = <<>>
              /\ stdout = <<>> /\ writer = <<>>
              /\ fr[c].pc = "raised" =>
                    /\ fr[c].exc.type = "ValueError"
                    /\ fr[c].exc.at = "concatenate"
                    /\ Len(fr[c].ret) = 0
                    /\ model.training = TRUE
        /\ (fr[c].pc = "raised" /\ fr[c].exc.at = "concatenate") =>
              Len(loader) = 0 /\ model.training = TRUE

\* the call over an empty loader, begun in inference mode, has failed
C10_Witness ==
    /\ Len(loader) = 0
    /\ fr[1].pc = "raised" /\ fr[1].exc.type = "ValueError"
    /\ modeLog[1].from = FALSE
    /\ model.training = TRUE
    /\ fwdLog = <<>>

====
